---- MODULE Spec2Model ----
(***************************************************************************)
(* A model of pommerman's battle runner (pommerman/cli/run_battle_comm.py) *)
(* and of its agent resolver (pommerman/helpers/__init__.py).              *)
(*                                                                         *)
(* Python strings are sequences of atoms: ":" and "," are one atom each,   *)
(* every other atom is a run of characters holding neither.  Python values *)
(* of different types are records tagged with their type.                  *)
(***************************************************************************)
EXTENDS Integers, Sequences, FiniteSets, TLC

VARIABLES
    USE_GAME_SERVERS,   \* helpers.USE_GAME_SERVERS, read from the environment at import
    GAME_SERVERS,       \* helpers.GAME_SERVERS, id -> os.getenv(...)
    call,               \* the arguments of a direct call of make_agent_from_string
    ret,                \* what that call returned or raised
    args,               \* the parsed command line handed to run
    num_times,          \* run's parameter
    seed,               \* run's parameter, then the seed applied
    pc,                 \* the position of run / _run
    agents,             \* run's list of agent handles
    env,                \* the simulation made by make(...)
    rng,                \* the process-wide generators: numpy's and random's
    infos,              \* run's list of episode results
    times,              \* run's list of episode durations
    i,                  \* the index of run's for loop
    start,              \* time.time() at the start of the episode
    dirs,               \* record_pngs_dir_, record_json_dir_ of the episode
    obs,                \* _run's obs
    done,               \* _run's done
    info,               \* _run's info
    actions,            \* _run's actions
    exc,                \* the exception that left run, if any
    atexit,             \* the handlers registered with atexit
    fs,                 \* the recorder's files: directories, frames, merged records
    finished,           \* the info of each finished episode's last step, in order
    log,                \* the calls the current episode made, in order
    ops                 \* how many of reset/act/step the simulation has served

resolver_vars == <<USE_GAME_SERVERS, GAME_SERVERS, call, ret>>
run_vars == <<args, num_times, seed, pc, agents, env, rng, infos, times, i, start,
              dirs, obs, done, info, actions, exc, atexit, fs, finished, log, ops>>
vars == <<resolver_vars, run_vars>>

--------------------------------------------------------------------------
(* Bounds of the model *)

MaxEpisodes == 2
MaxSeed == 1
MaxTicks == 2
MaxAction == 1
Mod == 3

--------------------------------------------------------------------------
(* Python values *)

None == [type |-> "NoneType"]
PyStr(s) == [type |-> "str", s |-> s]
PyInt(n) == [type |-> "int", n |-> n]
PyBool(b) == [type |-> "bool", b |-> b]

\* A local that will hold a list and is not assigned yet
Unbound == <<>>

\* Python truth value testing, as used by `not USE_GAME_SERVERS` and `if record_json_dir`
Truthy(v) ==
    CASE v.type = "NoneType" -> FALSE
      [] v.type = "str" -> v.s # <<>>
      [] v.type = "int" -> v.n # 0
      [] v.type = "bool" -> v.b
      [] OTHER -> TRUE

\* What a call produced: a value, or the exception it raised
Returned(v) == [raised |-> "None", value |-> v]
Raised(e) == [raised |-> e, value |-> None]

RECURSIVE SplitFrom(_, _, _)
SplitFrom(s, sep, cur) ==
    IF s = <<>> THEN <<cur>>
    ELSE IF Len(s) >= Len(sep) /\ SubSeq(s, 1, Len(sep)) = sep
         THEN <<cur>> \o SplitFrom(SubSeq(s, Len(sep) + 1, Len(s)), sep, <<>>)
         ELSE SplitFrom(Tail(s), sep, Append(cur, Head(s)))

\* str.split(sep): the pieces between the non-overlapping occurrences of sep,
\* found left to right
Split(s, sep) == SplitFrom(s, sep, <<>>)

\* str.__contains__
RECURSIVE Contains(_, _)
Contains(s, sub) ==
    IF Len(s) < Len(sub) THEN FALSE
    ELSE SubSeq(s, 1, Len(sub)) = sub \/ Contains(Tail(s), sub)

--------------------------------------------------------------------------
(* pommerman/helpers/__init__.py *)

AGENT_BASE_PORT == 10000
NumGameServers == 4

RecognizedKinds ==
    {"player", "playerblock", "simple", "static", "random", "docker",
     "docker_hakozaki", "http", "test", "tensorforce", "multiplayers",
     "static_agent_test"}

\* GAME_SERVERS[agent_id]: a dict lookup, KeyError outside its keys
GameServer(agent_id) ==
    IF agent_id \in DOMAIN GAME_SERVERS
    THEN Returned(GAME_SERVERS[agent_id])
    ELSE Raised("KeyError")

\* eval(agent_control)() in the namespace of the helpers module, which holds
\* agents, constants and os: a class of agents gives an instance of it, any other
\* callable is called all the same, an unbound name or a non-expression raises
EvalCall(agent_control) ==
    CASE agent_control = <<"agents.SimpleAgent">> ->
            Returned([type |-> "SimpleAgent"])
      [] agent_control = <<"agents.RandomAgent">> ->
            Returned([type |-> "RandomAgent"])
      [] agent_control = <<"os.getcwd">> ->
            Returned(PyStr(<<"/cwd">>))
      [] agent_control = <<>> \/ Contains(agent_control, <<":">>) ->
            Raised("SyntaxError")
      [] OTHER -> Raised("NameError")

\* The server with the lookup table never consulted
ServerFor_Local(agent_id, local) == Returned(PyStr(local))

\* The server of a docker or multiplayers agent
ServerFor(agent_id, local) ==
    IF ~Truthy(USE_GAME_SERVERS) THEN Returned(PyStr(local)) ELSE GameServer(agent_id)

\* The branch of a docker agent
MakeDocker(agent_control, agent_id, docker_env_dict) ==
    LET pieces == Split(agent_control, <<":">>) IN
    IF Len(pieces) # 2 THEN Raised("ValueError")
    ELSE LET port == PyStr(pieces[2])
             server == ServerFor(agent_id, <<"http://", "localhost">>)
         IN  IF server.raised # "None" THEN server
             ELSE Returned([type |-> "DockerAgent",
                            docker_image |-> PyStr(agent_control),
                            port |-> port,
                            server |-> server.value,
                            env_vars |-> docker_env_dict])

\* The branch of a docker_hakozaki agent
MakeDockerHakozaki(agent_control, agent_id, docker_env_dict) ==
    LET pieces == Split(agent_control, <<":">>) IN
    IF Contains(agent_control, <<":">>) /\ Len(pieces) # 2 THEN Raised("ValueError")
    ELSE LET image == IF Contains(agent_control, <<":">>)
                      THEN PyStr(pieces[1]) ELSE PyStr(agent_control)
             port == IF Contains(agent_control, <<":">>)
                     THEN PyStr(pieces[2]) ELSE PyInt(agent_id + AGENT_BASE_PORT)
         IN  Returned([type |-> "DockerHakozakiAgent",
                       docker_image |-> image,
                       port |-> port,
                       server |-> PyStr(<<"http://", "localhost">>),
                       env_vars |-> docker_env_dict])

\* The branch of a multiplayers agent
MakeMultiPlayer(agent_control, agent_id) ==
    LET pieces == Split(agent_control, <<":">>) IN
    IF Len(pieces) # 2 THEN Raised("ValueError")
    ELSE LET server == ServerFor(agent_id, <<"http://">> \o pieces[1]) IN
         IF server.raised # "None" THEN server
         ELSE Returned([type |-> "MultiPlayerAgent",
                        port |-> PyStr(pieces[2]),
                        server |-> server.value])

\* The branch of an http agent with the unpacking of line 65 tolerant of a
\* spec that is no pair: what is missing is None
MakeHttp_Lenient(agent_control) ==
    LET pieces == Split(agent_control, <<":">>) IN
    Returned([type |-> "HttpAgent",
              port |-> IF Len(pieces) >= 2 THEN PyStr(pieces[2]) ELSE None,
              host |-> IF Len(pieces) >= 1 THEN PyStr(pieces[1]) ELSE None])

\* The branch of an http agent
MakeHttp(agent_control) ==
    LET pieces == Split(agent_control, <<":">>) IN
    IF Len(pieces) # 2 THEN Raised("ValueError")
    ELSE Returned([type |-> "HttpAgent",
                   port |-> PyStr(pieces[2]),
                   host |-> PyStr(pieces[1])])

\* The if/elif chain over agent_type
MakeByKind(agent_type, agent_control, agent_id, docker_env_dict) ==
    CASE agent_type = <<"player">> ->
            Returned([type |-> "PlayerAgent", agent_control |-> PyStr(agent_control)])
      [] agent_type = <<"playerblock">> ->
            Returned([type |-> "PlayerAgentBlocking",
                      agent_control |-> PyStr(agent_control)])
      [] agent_type = <<"simple">> -> Returned([type |-> "SimpleAgent"])
      [] agent_type = <<"static">> -> Returned([type |-> "StaticAgent"])
      [] agent_type = <<"static_agent_test">> -> Returned([type |-> "StaticAgentTest"])
      [] agent_type = <<"random">> -> Returned([type |-> "RandomAgent"])
      [] agent_type = <<"docker">> ->
            MakeDocker(agent_control, agent_id, docker_env_dict)
      [] agent_type = <<"docker_hakozaki">> ->
            MakeDockerHakozaki(agent_control, agent_id, docker_env_dict)
      [] agent_type = <<"multiplayers">> -> MakeMultiPlayer(agent_control, agent_id)
      [] agent_type = <<"http">> -> MakeHttp(agent_control)
      [] agent_type = <<"test">> -> EvalCall(agent_control)
      [] agent_type = <<"tensorforce">> ->
            Returned([type |-> "TensorForceAgent", algorithm |-> PyStr(agent_control)])
      [] OTHER -> Returned(None)

\* The assert on agent_type as python -O leaves it: stripped
KindAsserted_Stripped(agent_type) == TRUE

\* The assert on agent_type
KindAsserted(agent_type) ==
    \E k \in RecognizedKinds : agent_type = <<k>>

make_agent_from_string(agent_string, agent_id, docker_env_dict) ==
    LET parts == Split(agent_string, <<":", ":">>) IN
    IF Len(parts) # 2 THEN Raised("ValueError")
    ELSE IF ~KindAsserted(parts[1]) THEN Raised("AssertionError")
    ELSE MakeByKind(parts[1], parts[2], agent_id, docker_env_dict)

--------------------------------------------------------------------------
(* Direct calls of make_agent_from_string *)

\* The positions of the agents of a game: the keys of GAME_SERVERS
AgentIds == 0 .. NumGameServers - 1

KindAtoms == RecognizedKinds \cup {"bogus"}

Controls ==
    { <<>>, <<"x">>, <<"x", ":", "p">>, <<"x", ":">>, <<"a", ":", "b", ":", "c">>,
      <<"agents.SimpleAgent">>, <<"os.getcwd">>, <<"x", ":", ":", "y">> }

Descriptors ==
    { <<k, ":", ":">> \o c : k \in KindAtoms, c \in Controls }
    \cup { <<":", ":">> \o c : c \in Controls }
    \cup { <<k>> : k \in KindAtoms }
    \cup { <<k, ":">> \o c : k \in KindAtoms, c \in {<<"x">>, <<"x", ":", "p">>} }

\* os.getenv of a variable that is unset, set to nothing, or set
FlagValues == {None, PyStr(<<>>), PyStr(<<"1">>)}

ServerTables ==
    { [id \in AgentIds |-> None],
      [id \in AgentIds |-> PyStr(<<"http://", <<"gs0", "gs1", "gs2", "gs3">>[id + 1]>>)] }

EnvDicts == {None, [type |-> "dict", items |-> <<"foo=bar">>]}

NotCalled == [raised |-> "not called", value |-> None]
Pending == [raised |-> "pending", value |-> None]

\* The run's variables while make_agent_from_string is called on its own
RunIdle ==
    /\ args = None /\ num_times = 0 /\ seed = None /\ pc = "idle"
    /\ agents = Unbound /\ env = None /\ rng = None
    /\ infos = <<>> /\ times = <<>> /\ i = 0 /\ start = 0 /\ dirs = None
    /\ obs = Unbound /\ done = FALSE /\ info = None /\ actions = Unbound
    /\ exc = "None" /\ atexit = <<>> /\ fs = None /\ finished = <<>> /\ log = <<>>
    /\ ops = 0

InitResolve ==
    /\ USE_GAME_SERVERS \in FlagValues
    /\ GAME_SERVERS \in ServerTables
    /\ call \in [agent_string : Descriptors, agent_id : AgentIds,
                 docker_env_dict : EnvDicts]
    /\ ret = Pending
    /\ RunIdle

Resolve ==
    /\ ret = Pending
    /\ ret' = make_agent_from_string(call.agent_string, call.agent_id,
                                     call.docker_env_dict)
    /\ UNCHANGED <<USE_GAME_SERVERS, GAME_SERVERS, call, run_vars>>

NextResolve == Resolve

SpecResolve == InitResolve /\ [][NextResolve]_vars

--------------------------------------------------------------------------
(* The collaborators of run: the generators, the simulation, the agents *)

Unseeded == -1

\* seed(value) of a generator
Seeded(value) == value % Mod

\* One draw: the value drawn and the generator's next state.  A generator that
\* was never seeded starts from the system's entropy.
Draw(state, entropy) ==
    LET cur == IF state = Unseeded THEN entropy ELSE state
    IN  [value |-> cur, state |-> (cur + 1) % Mod]

Actions == 0 .. MaxAction

\* env.get_observations(): one observation per agent, cut to the agent's view
\* when the simulation is partially observable
Observations(e, n) ==
    [a \in 1 .. n |->
        [step_count |-> e.step_count,
         board |-> e.board,
         partial |-> e.is_partially_observable]]

\* make(config, agents, game_state_file, render_mode)
Make(config, n) ==
    [is_partially_observable |-> config.is_partially_observable,
     kwargs |-> [k \in {"game_type", "env"} |-> config[k]],
     board |-> 0,
     step_count |-> 0,
     prng |-> Unseeded,
     n |-> n]

\* env.reset(): a fresh board out of the process-wide generators
EnvReset(e, r, entropy) ==
    LET d1 == Draw(r.np, entropy)
        d2 == Draw(r.py, entropy)
        e2 == [e EXCEPT !.board = (d1.value + d2.value) % Mod, !.step_count = 0]
    IN  [env |-> e2,
         rng |-> [np |-> d1.state, py |-> d2.state],
         obs |-> Observations(e2, e.n)]

\* The agents whose action is a function of the observation and the generators
Deterministic(agent) ==
    agent.type \in {"SimpleAgent", "StaticAgent", "StaticAgentTest", "RandomAgent"}

\* agent.act(obs, action_space) of the k-th agent, and the generators after it
AgentAct(agent, ob, st, entropy, external) ==
    CASE agent.type = "RandomAgent" ->
            LET d == Draw(st.prng, entropy)
            IN  [action |-> d.value % (MaxAction + 1), st |-> [st EXCEPT !.prng = d.state]]
      [] agent.type = "SimpleAgent" ->
            LET d == Draw(st.py, entropy)
            IN  [action |-> (ob.board + d.value) % (MaxAction + 1),
                 st |-> [st EXCEPT !.py = d.state]]
      [] agent.type \in {"StaticAgent", "StaticAgentTest"} ->
            [action |-> 0, st |-> st]
      [] OTHER -> [action |-> external, st |-> st]

RECURSIVE ActFrom(_, _, _, _, _, _)
ActFrom(k, ags, o, st, entropy, external) ==
    IF k > Len(ags) THEN [actions |-> <<>>, st |-> st]
    ELSE LET one == AgentAct(ags[k], o[k], st, entropy, external[k])
             rest == ActFrom(k + 1, ags, o, one.st, entropy, external)
         IN  [actions |-> <<one.action>> \o rest.actions, st |-> rest.st]

\* env.act(obs): every agent's action, in the order of the agents
EnvAct(ags, o, e, r, entropy, external) ==
    LET res == ActFrom(1, ags, o, [np |-> r.np, py |-> r.py, prng |-> e.prng],
                       entropy, external)
    IN  [actions |-> res.actions,
         env |-> [e EXCEPT !.prng = res.st.prng],
         rng |-> [np |-> res.st.np, py |-> res.st.py]]

RECURSIVE Sum(_)
Sum(s) == IF s = <<>> THEN 0 ELSE Head(s) + Sum(Tail(s))

Result(name) == [type |-> "Result", name |-> name]

\* env.step(actions): the next observations, the done flag and the info
EnvStep(e, acts) ==
    LET board == (e.board + Sum(acts)) % Mod
        count == e.step_count + 1
        e2 == [e EXCEPT !.board = board, !.step_count = count]
        over == board = 0 \/ count >= MaxTicks
    IN  [env |-> e2,
         obs |-> Observations(e2, e.n),
         done |-> over,
         info |-> [type |-> "dict",
                   result |-> IF ~over THEN Result("Incomplete")
                              ELSE IF board = 0 THEN Result("Win")
                              ELSE Result("Tie")]]

\* json.dumps(value, cls=utility.PommermanJSONEncoder)
Dumps(value) == [type |-> "json", of |-> value]

\* str(value)
StrOf(value) == PyStr(<<value.type, ".", value.name>>)

\* env.get_json_info()
JsonInfo(e) == [step_count |-> Dumps(PyInt(e.step_count)), board |-> Dumps(PyInt(e.board))]

--------------------------------------------------------------------------
(* pommerman/cli/run_battle_comm.py: run *)

\* args.agents of the runs explored: the agents of a battle, comma delimited
RunAgentStrings ==
    { <<"random", ":", ":", "null", ",", "random", ":", ":", "null">>,
      <<"test", ":", ":", "agents.SimpleAgent", ",", "random", ":", ":", "null">>,
      <<"player", ":", ":", "arrows", ",", "random", ":", ":", "null">>,
      <<"random", ":", ":", "null", ",", "docker", ":", ":", "img", ":", "p">>,
      <<"random", ":", ":", "null", ",", "docker", ":", ":", "img">>,
      <<"bogus", ":", ":", "x", ",", "random", ":", ":", "null">>,
      <<"random", ":", ":", "null", ",", "bogus", ":", ":", "x">>,
      <<"random", ",", "random", ":", ":", "null">> }

\* The configurations args.config may name, by the keyword arguments of their env
Configs ==
    { [is_partially_observable |-> b, game_type |-> PyInt(1), env |-> PyStr(<<"Pomme">>)]
        : b \in BOOLEAN }

\* The values of --agent_env_vars: the default, or a variable for agent 1
AgentEnvVars == {PyStr(<<>>), PyStr(<<"1", ":", "foo=bar">>)}

\* The arguments of a run; variables are given where a docker agent takes part
RunArgs ==
    { a \in [agents : RunAgentStrings,
             config : Configs,
             render : BOOLEAN,
             record_pngs_dir : {None},
             record_json_dir : {None, PyStr(<<"rec">>)},
             messaging_port : {PyInt(8000)},
             agent_env_vars : AgentEnvVars] :
        Truthy(a.agent_env_vars) => Contains(a.agents, <<"docker">>) }

\* time.time(): the time that has passed, counted in the calls the simulation
\* has served
Now == ops

\* What requests.post may do: answer, run into the timeout, or fail otherwise
SendOutcomes == {"ok", "Timeout", "ConnectionError"}

InitRun ==
    /\ USE_GAME_SERVERS = None
    /\ GAME_SERVERS = [id \in AgentIds |-> None]
    /\ call = None /\ ret = NotCalled
    /\ args \in RunArgs
    /\ num_times \in 0 .. MaxEpisodes
    /\ seed \in {None} \cup {PyInt(n) : n \in 0 .. MaxSeed}
    /\ pc = "agents"
    /\ agents = Unbound /\ env = None
    /\ rng = [np |-> Unseeded, py |-> Unseeded]
    /\ infos = <<>> /\ times = <<>> /\ i = 0 /\ start = 0 /\ dirs = None
    /\ obs = Unbound /\ done = FALSE /\ info = None /\ actions = Unbound
    /\ exc = "None" /\ atexit = <<>>
    /\ fs = [dirs |-> {}, rendered |-> 0, frames |-> <<>>, merged |-> <<>>]
    /\ finished = <<>> /\ log = <<>> /\ ops = 0

fixed_vars == <<USE_GAME_SERVERS, GAME_SERVERS, call, ret, args, num_times>>
loop_vars == <<infos, times, i, start, dirs>>
episode_vars == <<obs, done, info, actions>>

RECURSIVE MakeAgents(_, _)
\* The list comprehension over enumerate(args.agents.split(',')), from the k-th on
MakeAgents(strings, k) ==
    IF k > Len(strings) THEN Returned(<<>>)
    ELSE LET a == make_agent_from_string(strings[k], k - 1, None) IN
         IF a.raised # "None" THEN a
         ELSE LET rest == MakeAgents(strings, k + 1) IN
              IF rest.raised # "None" THEN rest
              ELSE Returned(<<a.value>> \o rest.value)

\* Lines 45-48 with a failed construction caught and the agent left out
ResolveAgents_Lenient ==
    /\ pc = "agents"
    /\ LET made == MakeAgents(Split(args.agents, <<",">>), 1) IN
       agents' = IF made.raised = "None" THEN made.value ELSE <<[type |-> "RandomAgent"]>>
    /\ pc' = "make"
    /\ UNCHANGED <<fixed_vars, loop_vars, episode_vars, seed, env, rng, exc, atexit, fs,
                   finished, log, ops>>

\* Lines 45-48: agents = [make_agent_from_string(...) for ...]
ResolveAgents ==
    /\ pc = "agents"
    /\ LET made == MakeAgents(Split(args.agents, <<",">>), 1) IN
       IF made.raised = "None"
       THEN agents' = made.value /\ pc' = "make" /\ exc' = exc
       ELSE agents' = agents /\ pc' = "raised" /\ exc' = made.raised
    /\ UNCHANGED <<fixed_vars, loop_vars, episode_vars, seed, env, rng, atexit, fs,
                   finished, log, ops>>

\* Line 50: env = make(config, agents, game_state_file, render_mode=render_mode)
MakeEnv ==
    /\ pc = "make"
    /\ env' = Make(args.config, Len(agents))
    /\ pc' = "seed"
    /\ UNCHANGED <<fixed_vars, loop_vars, episode_vars, seed, agents, rng, exc, atexit,
                   fs, finished, log, ops>>

\* Lines 145-150 without line 150, env.seed(seed)
SeedAll_NoEnvSeed ==
    /\ pc = "seed"
    /\ \E picked \in 0 .. MaxSeed :
          /\ seed' = IF seed = None THEN PyInt(picked) ELSE seed
          /\ seed # None => picked = 0
    /\ rng' = [np |-> Seeded(seed'.n), py |-> Seeded(seed'.n)]
    /\ pc' = "for"
    /\ UNCHANGED <<fixed_vars, loop_vars, episode_vars, agents, env, exc, atexit, fs,
                   finished, log, ops>>

\* Lines 145-150: pick a seed if none was given, and seed the three generators
SeedAll ==
    /\ pc = "seed"
    /\ \E picked \in 0 .. MaxSeed :
          /\ seed' = IF seed = None THEN PyInt(picked) ELSE seed
          /\ seed # None => picked = 0
    /\ rng' = [np |-> Seeded(seed'.n), py |-> Seeded(seed'.n)]
    /\ env' = [env EXCEPT !.prng = Seeded(seed'.n)]
    /\ pc' = "for"
    /\ UNCHANGED <<fixed_vars, loop_vars, episode_vars, agents, exc, atexit, fs,
                   finished, log, ops>>

Digits == <<"0", "1", "2", "3", "4", "5", "6", "7", "8", "9">>

\* base + '/%d' % (i+1) if base else None
EpisodeDir(base, n) ==
    IF Truthy(base) THEN PyStr(base.s \o <<"/", Digits[n + 1]>>) ELSE None

\* Lines 154-160 and 166: the head of the for loop
For ==
    /\ pc = "for"
    /\ IF i < num_times
       THEN /\ start' = Now
            /\ dirs' = [pngs |-> EpisodeDir(args.record_pngs_dir, i + 1),
                        json |-> EpisodeDir(args.record_json_dir, i + 1)]
            /\ log' = <<>>
            /\ pc' = "mkdirs"
       ELSE /\ UNCHANGED <<start, dirs, log>>
            /\ pc' = "atexit"
    /\ UNCHANGED <<fixed_vars, episode_vars, infos, times, i, seed, agents, env, rng,
                   exc, atexit, fs, finished, ops>>

\* Lines 68-71: create the recording directories
Mkdirs ==
    /\ pc = "mkdirs"
    /\ LET wanted == { d \in {dirs.pngs, dirs.json} : Truthy(d) /\ d \notin fs.dirs } IN
       \/ /\ fs' = [fs EXCEPT !.dirs = @ \cup wanted]
          /\ pc' = "reset" /\ exc' = exc
       \/ /\ wanted # {}
          /\ fs' = fs
          /\ pc' = "raised" /\ exc' = "OSError"
    /\ UNCHANGED <<fixed_vars, loop_vars, episode_vars, seed, agents, env, rng, atexit,
                   finished, log, ops>>

\* Lines 73-74: obs = env.reset(); done = False
Reset ==
    /\ pc = "reset"
    /\ \E entropy \in 0 .. Mod - 1 :
          /\ (rng.np # Unseeded /\ rng.py # Unseeded) => entropy = 0
          /\ LET r == EnvReset(env, rng, entropy) IN
             /\ env' = r.env /\ rng' = r.rng /\ obs' = r.obs
    /\ done' = FALSE
    /\ log' = Append(log, [op |-> "reset"])
    /\ ops' = ops + 1
    /\ pc' = "envinfo"
    /\ UNCHANGED <<fixed_vars, loop_vars, info, actions, seed, agents, exc, atexit, fs,
                   finished>>

\* send_json with the exception printed and not raised again
send_json_Swallowed(outcome) == "None"

\* Lines 52-63: what leaves send_json: nothing, or the exception of requests.post
send_json(outcome) ==
    IF outcome = "ok" THEN "None" ELSE outcome

\* A call of send_json from _run, which goes on at `next` when nothing is raised
Send(path, payload, next) ==
    \E outcome \in SendOutcomes :
        /\ log' = Append(log, [op |-> "post", path |-> path, payload |-> payload,
                               outcome |-> outcome])
        /\ IF send_json(outcome) = "None"
           THEN pc' = next /\ exc' = exc
           ELSE pc' = "raised" /\ exc' = send_json(outcome)

\* Lines 77-82: envinfo = env.spec._kwargs, each value json.dumps'ed in place, sent
SendEnvinfo ==
    /\ pc = "envinfo"
    /\ env' = [env EXCEPT !.kwargs = [k \in DOMAIN @ |-> Dumps(@[k])]]
    /\ Send("envinfo", env'.kwargs, "notify0")
    /\ UNCHANGED <<fixed_vars, loop_vars, episode_vars, seed, agents, rng, atexit, fs,
                   finished, ops>>

\* env.notify_obs(obs, waiting)
NotifyObs(o, waiting) ==
    log' = Append(log, [op |-> "notify_obs", tick |-> o[1].step_count,
                        waiting |-> waiting])

\* Line 85: env.notify_obs(obs, waiting=True)
NotifyInitial ==
    /\ pc = "notify0"
    /\ NotifyObs(obs, TRUE)
    /\ pc' = "initial_obs"
    /\ UNCHANGED <<fixed_vars, loop_vars, episode_vars, seed, agents, env, rng, exc,
                   atexit, fs, finished, ops>>

\* Lines 88-91: send env.get_json_info() to /initial_obs
SendInitialObs ==
    /\ pc = "initial_obs"
    /\ Send("initial_obs", JsonInfo(env), "while")
    /\ UNCHANGED <<fixed_vars, loop_vars, episode_vars, seed, agents, env, rng, atexit,
                   fs, finished, ops>>

\* Line 93 with the loop bound to the step count of the simulation, not to done
While_UntilLastStep ==
    /\ pc = "while"
    /\ pc' = IF env.step_count < MaxTicks THEN "render" ELSE "final_info"
    /\ UNCHANGED <<fixed_vars, loop_vars, episode_vars, seed, agents, env, rng, exc,
                   atexit, fs, finished, log, ops>>

\* Line 93: while not done
While ==
    /\ pc = "while"
    /\ pc' = IF ~done THEN "render" ELSE "final_info"
    /\ UNCHANGED <<fixed_vars, loop_vars, episode_vars, seed, agents, env, rng, exc,
                   atexit, fs, finished, log, ops>>

\* env.save_json(record_json_dir): one more frame in the directory, or an I/O
\* error.  env.render(...) draws the frame and, handed a record_json_dir, saves
\* it the same way.
SaveJson(drawn, next) ==
    \/ /\ fs' = [fs EXCEPT !.rendered = @ + drawn,
                           !.frames = Append(@, [dir |-> dirs.json,
                                                 step_count |-> env.step_count])]
       /\ pc' = next /\ exc' = exc
    \/ /\ fs' = [fs EXCEPT !.rendered = @ + drawn]
       /\ pc' = "raised" /\ exc' = "OSError"

\* The two ifs on args.render and record_json_dir, lines 94-101 and 124-135
RenderOrSave(next) ==
    IF args.render
    THEN IF Truthy(dirs.json)
         THEN SaveJson(1, next)
         ELSE fs' = [fs EXCEPT !.rendered = @ + 1] /\ pc' = next /\ exc' = exc
    ELSE IF Truthy(dirs.json)
         THEN SaveJson(0, next)
         ELSE fs' = fs /\ pc' = next /\ exc' = exc

\* Lines 94-101: render the frame, or save it when only recording
RenderFrame ==
    /\ pc = "render"
    /\ RenderOrSave("notify")
    /\ UNCHANGED <<fixed_vars, loop_vars, episode_vars, seed, agents, env, rng, atexit,
                   finished, log, ops>>

\* Line 104 left out: the agents are polled without the humans being notified
Notify_Skipped ==
    /\ pc = "notify"
    /\ pc' = "act"
    /\ UNCHANGED <<fixed_vars, loop_vars, episode_vars, seed, agents, env, rng, exc,
                   atexit, fs, finished, log, ops>>

\* Line 104: env.notify_obs(obs, waiting=True)
Notify ==
    /\ pc = "notify"
    /\ NotifyObs(obs, TRUE)
    /\ pc' = "act"
    /\ UNCHANGED <<fixed_vars, loop_vars, episode_vars, seed, agents, env, rng, exc,
                   atexit, fs, finished, ops>>

\* The agents that answer from outside the process: a human, a remote service
External(ags) == { k \in 1 .. Len(ags) : ~Deterministic(ags[k]) }

\* Line 105: actions = env.act(obs)
Act ==
    /\ pc = "act"
    /\ \E entropy \in 0 .. Mod - 1, external \in [1 .. Len(agents) -> Actions] :
          /\ (rng.py # Unseeded /\ env.prng # Unseeded) => entropy = 0
          /\ \A k \in 1 .. Len(agents) : k \notin External(agents) => external[k] = 0
          /\ LET r == EnvAct(agents, obs, env, rng, entropy, external) IN
             /\ actions' = r.actions /\ env' = r.env /\ rng' = r.rng
    /\ log' = Append(log, [op |-> "act", tick |-> obs[1].step_count,
                           n |-> Len(actions')])
    /\ ops' = ops + 1
    /\ pc' = "step"
    /\ UNCHANGED <<fixed_vars, loop_vars, obs, done, info, seed, agents, exc, atexit, fs,
                   finished>>

\* Line 106: obs, reward, done, info = env.step(actions)
Step ==
    /\ pc = "step"
    /\ LET r == EnvStep(env, actions) IN
       /\ env' = r.env /\ obs' = r.obs /\ done' = r.done /\ info' = r.info
       /\ finished' = IF r.done THEN Append(finished, r.info) ELSE finished
    /\ log' = Append(log, [op |-> "step", tick |-> env.step_count,
                           n |-> Len(actions)])
    /\ ops' = ops + 1
    /\ pc' = "post_step"
    /\ UNCHANGED <<fixed_vars, loop_vars, actions, seed, agents, rng, exc, atexit, fs>>

\* Lines 109-113 sending only the last state of the episode
SendStep_OnlyLast ==
    /\ pc = "post_step"
    /\ IF done
       THEN Send("step", [state |-> JsonInfo(env), done |-> Dumps(PyBool(done))], "while")
       ELSE pc' = "while" /\ UNCHANGED <<log, exc>>
    /\ UNCHANGED <<fixed_vars, loop_vars, episode_vars, seed, agents, env, rng, atexit,
                   fs, finished, ops>>

\* Lines 109-113: send env.get_json_info() with the done flag to /step
SendStep ==
    /\ pc = "post_step"
    /\ Send("step", [state |-> JsonInfo(env), done |-> Dumps(PyBool(done))], "while")
    /\ UNCHANGED <<fixed_vars, loop_vars, episode_vars, seed, agents, env, rng, atexit,
                   fs, finished, ops>>

\* Lines 115-117 with info_ = info for info_ = deepcopy(info): the result is
\* stringified in the info of the step itself
SendFinalInfo_Aliased ==
    /\ pc = "final_info"
    /\ info' = [info EXCEPT !.result = StrOf(@)]
    /\ Send("final_info", Dumps(info'), "final_obs")
    /\ UNCHANGED <<fixed_vars, loop_vars, obs, done, actions, seed, agents, env, rng,
                   atexit, fs, finished, ops>>

\* Lines 115-117: send a copy of info, its result stringified, to /final_info
SendFinalInfo ==
    /\ pc = "final_info"
    /\ LET info_ == [info EXCEPT !.result = StrOf(@)] IN
       Send("final_info", Dumps(info_), "final_obs")
    /\ UNCHANGED <<fixed_vars, loop_vars, episode_vars, seed, agents, env, rng, atexit,
                   fs, finished, ops>>

\* Lines 119-121: make the simulation fully observable and notify the final
\* observations without waiting
NotifyFinal ==
    /\ pc = "final_obs"
    /\ env' = [env EXCEPT !.is_partially_observable = FALSE]
    /\ NotifyObs(Observations(env', env.n), FALSE)
    /\ pc' = "final_render"
    /\ UNCHANGED <<fixed_vars, loop_vars, episode_vars, seed, agents, rng, exc, atexit,
                   fs, finished, ops>>

\* Lines 124-135 with the save of lines 133-135 left out: when only recording,
\* no frame follows the loop
RenderFinal_NoLastFrame ==
    /\ pc = "final_render"
    /\ IF args.render
       THEN RenderOrSave("join")
       ELSE fs' = fs /\ pc' = "join" /\ exc' = exc
    /\ UNCHANGED <<fixed_vars, loop_vars, episode_vars, seed, agents, env, rng, atexit,
                   finished, log, ops>>

\* Lines 124-135: the last frame, rendered or saved; env.render(close=True)
\* leaves fs as it is
RenderFinal ==
    /\ pc = "final_render"
    /\ RenderOrSave("join")
    /\ UNCHANGED <<fixed_vars, loop_vars, episode_vars, seed, agents, env, rng, atexit,
                   finished, log, ops>>

\* Lines 137-141: utility.join_json_state(record_json_dir, _agents, finished_at,
\* config, info), or an I/O error of it
JoinJson ==
    /\ pc = "join"
    /\ IF Truthy(dirs.json)
       THEN \/ /\ fs' = [fs EXCEPT !.merged =
                            Append(@, [dir |-> dirs.json,
                                       agents |-> Split(args.agents, <<",">>),
                                       frames |-> Len(fs.frames),
                                       info |-> info])]
               /\ pc' = "return" /\ exc' = exc
            \/ /\ fs' = fs
               /\ pc' = "raised" /\ exc' = "OSError"
       ELSE fs' = fs /\ pc' = "return" /\ exc' = exc
    /\ UNCHANGED <<fixed_vars, loop_vars, episode_vars, seed, agents, env, rng, atexit,
                   finished, log, ops>>

\* Line 161 with infos.insert(0, ...) for infos.append(...)
Return_Prepended ==
    /\ pc = "return"
    /\ infos' = <<info>> \o infos
    /\ times' = Append(times, Now - start)
    /\ i' = i + 1
    /\ pc' = "for"
    /\ UNCHANGED <<fixed_vars, episode_vars, start, dirs, seed, agents, env, rng, exc,
                   atexit, fs, finished, log, ops>>

\* Lines 143 and 161-164: return info; infos.append(...); times.append(...)
Return ==
    /\ pc = "return"
    /\ infos' = Append(infos, info)
    /\ times' = Append(times, Now - start)
    /\ i' = i + 1
    /\ pc' = "for"
    /\ UNCHANGED <<fixed_vars, episode_vars, start, dirs, seed, agents, env, rng, exc,
                   atexit, fs, finished, log, ops>>

\* Lines 166-167: atexit.register(env.close); return infos
RegisterClose ==
    /\ pc = "atexit"
    /\ atexit' = Append(atexit, "env.close")
    /\ pc' = "returned"
    /\ UNCHANGED <<fixed_vars, loop_vars, episode_vars, seed, agents, env, rng, exc, fs,
                   finished, log, ops>>

Next ==
    \/ ResolveAgents \/ MakeEnv \/ SeedAll \/ For \/ Mkdirs \/ Reset
    \/ SendEnvinfo \/ NotifyInitial \/ SendInitialObs \/ While \/ RenderFrame
    \/ Notify \/ Act \/ Step \/ SendStep \/ SendFinalInfo \/ NotifyFinal
    \/ RenderFinal \/ JoinJson \/ Return \/ RegisterClose

Spec == InitRun /\ [][Next]_vars

--------------------------------------------------------------------------
(* Properties of make_agent_from_string, under SpecResolve *)

Called == pc = "idle" /\ ret # Pending

\* The descriptor of the call, split around "::"
CallParts == Split(call.agent_string, <<":", ":">>)
WellFormed == Len(CallParts) = 2
CallKind == CallParts[1]
CallControl == CallParts[2]
CallIs(kind) == WellFormed /\ CallKind = <<kind>>

RemoteKinds == {"docker", "docker_hakozaki", "multiplayers", "http"}

\* The spec of a remote kind is an image_or_host:port pair
IsPair(control) == Len(Split(control, <<":">>)) = 2

\* The test strategies a descriptor may name, and the class of each
TestStrategies ==
    { <<<<"agents.SimpleAgent">>, "SimpleAgent">>,
      <<<<"agents.RandomAgent">>, "RandomAgent">> }

\* The variant of handle each kind stands for
VariantOf(kind, control) ==
    CASE kind = "player" -> "PlayerAgent"
      [] kind = "playerblock" -> "PlayerAgentBlocking"
      [] kind = "simple" -> "SimpleAgent"
      [] kind = "static" -> "StaticAgent"
      [] kind = "static_agent_test" -> "StaticAgentTest"
      [] kind = "random" -> "RandomAgent"
      [] kind = "docker" -> "DockerAgent"
      [] kind = "docker_hakozaki" -> "DockerHakozakiAgent"
      [] kind = "multiplayers" -> "MultiPlayerAgent"
      [] kind = "http" -> "HttpAgent"
      [] kind = "tensorforce" -> "TensorForceAgent"
      [] kind = "test" -> (CHOOSE t \in TestStrategies : t[1] = control)[2]

\* A descriptor with the sub-fields its kind expects
ValidFor(kind, control) ==
    CASE kind \in {"docker", "multiplayers", "http"} -> IsPair(control)
      [] kind = "docker_hakozaki" -> IsPair(control) \/ ~Contains(control, <<":">>)
      [] kind = "test" -> \E t \in TestStrategies : t[1] = control
      [] OTHER -> TRUE

C8_PortDefault ==
    \A k \in RemoteKinds :
        (Called /\ CallIs(k) /\ CallControl # <<>>) =>
            /\ ~Contains(CallControl, <<":">>) =>
                    /\ ret.raised = "None"
                    /\ ret.value.port = PyInt(call.agent_id + AGENT_BASE_PORT)
            /\ IsPair(CallControl) =>
                    /\ ret.raised = "None"
                    /\ ret.value.port = PyStr(Split(CallControl, <<":">>)[2])

LocalHost == PyStr(<<"http://", "localhost">>)

\* Where a remote handle sends its requests
BoundTo(handle) ==
    IF "server" \in DOMAIN handle THEN handle.server ELSE handle.host

\* C9, as claimed: the server of every remote handle is the table's entry for
\* the agent id when the flag is set, and the local host otherwise.
C9_ServerAsClaimed ==
    \A k \in RemoteKinds :
        (Called /\ CallIs(k) /\ ret.raised = "None") =>
            BoundTo(ret.value) = IF Truthy(USE_GAME_SERVERS)
                                 THEN GAME_SERVERS[call.agent_id]
                                 ELSE LocalHost

\* C9, amended: a docker handle is bound to the table's entry when the flag is
\* set (to a non-empty value) and to the local host otherwise; a multiplayers
\* handle to the table's entry when the flag is set and otherwise to the host
\* its spec names; a docker_hakozaki handle always to the local host; an http
\* handle always to the host its spec names.
C9_ServerByKind ==
    (Called /\ WellFormed /\ ret.raised = "None") =>
        /\ CallIs("docker") =>
              ret.value.server = IF Truthy(USE_GAME_SERVERS)
                                 THEN GAME_SERVERS[call.agent_id] ELSE LocalHost
        /\ CallIs("multiplayers") =>
              ret.value.server =
                  IF Truthy(USE_GAME_SERVERS)
                  THEN GAME_SERVERS[call.agent_id]
                  ELSE PyStr(<<"http://">> \o Split(CallControl, <<":">>)[1])
        /\ CallIs("docker_hakozaki") => ret.value.server = LocalHost
        /\ CallIs("http") =>
              /\ "server" \notin DOMAIN ret.value
              /\ ret.value.host = PyStr(Split(CallControl, <<":">>)[1])

C9_Witness ==
    /\ Called
    /\ CallIs("docker_hakozaki")
    /\ Truthy(USE_GAME_SERVERS)
    /\ GAME_SERVERS[call.agent_id] # None
    /\ ret.raised = "None"
    /\ ret.value.server = LocalHost

--------------------------------------------------------------------------
(* Properties of run, under Spec *)

\* The posts of the current episode, in order
Posts == SelectSeq(log, LAMBDA e : e.op = "post")
PostPaths == [j \in 1 .. Len(Posts) |-> Posts[j].path]

\* envinfo, initial_obs, k times step, final_info
Pattern(k) ==
    <<"envinfo", "initial_obs">> \o [j \in 1 .. k |-> "step"] \o <<"final_info">>

IsPrefix(s, t) == Len(s) <= Len(t) /\ s = SubSeq(t, 1, Len(s))

\* _run is past its last send_json, none of which raised
PastFinalInfo == pc \in {"final_obs", "final_render", "join", "return"}

\* C1: the posts of an episode are, in this order, envinfo, initial_obs, one
\* step per tick with the ticks' indices rising, and final_info: at any moment
\* a prefix of that sequence, and all of it once every send of an episode of
\* K >= 1 ticks has succeeded.
C1_TelemetryOrder ==
    log # <<>> =>
        /\ IsPrefix(PostPaths, Pattern(env.step_count))
        /\ PastFinalInfo =>
              /\ env.step_count >= 1
              /\ PostPaths = Pattern(env.step_count)
              /\ \A j \in 1 .. Len(Posts) : Posts[j].outcome = "ok"
              /\ \A j \in 1 .. env.step_count :
                    Posts[j + 2].payload.state.step_count = Dumps(PyInt(j))

C1_Witness ==
    /\ pc = "return"
    /\ env.step_count = 2
    /\ PostPaths = <<"envinfo", "initial_obs", "step", "step", "final_info">>

FailedHandshake(e) ==
    e.op = "post" /\ e.path \in {"envinfo", "initial_obs"} /\ e.outcome # "ok"

\* C2: a failed envinfo or initial_obs send ends the episode there: the error of
\* the send (the timeout, when it timed out) leaves run, the send is the
\* episode's last call, nothing is sent again, and the episode has polled no
\* agent and stepped no simulation.
C2_HandshakeFatal ==
    \A j \in 1 .. Len(log) :
        FailedHandshake(log[j]) =>
            /\ pc = "raised"
            /\ exc = log[j].outcome
            /\ j = Len(log)
            /\ \A m \in 1 .. Len(log) : log[m].op \notin {"act", "step"}
            /\ env.step_count = 0
            /\ Len(infos) = i

C2_Witness ==
    /\ pc = "raised"
    /\ exc = "Timeout"
    /\ Len(log) = 4
    /\ FailedHandshake(log[4])
    /\ log[4].path = "initial_obs"

\* C3, as claimed: run returns num_times results in episode order, each
\* carrying a non-negative duration.
C3_ResultsCarryDuration ==
    pc = "returned" =>
        /\ Len(infos) = num_times
        /\ infos = finished
        /\ \A j \in 1 .. Len(infos) :
              /\ "duration" \in DOMAIN infos[j]
              /\ infos[j].duration >= 0

\* C3, amended: the episodes run one after another and run returns exactly
\* num_times results in episode order; the durations are kept in a list of
\* their own, one per episode, which is not returned: no result carries one.
C3_ResultsInOrder ==
    /\ Len(infos) = i
    /\ Len(times) = i
    /\ i <= num_times
    /\ infos = SubSeq(finished, 1, i)
    /\ Len(finished) \in {i, i + 1}
    /\ \A j \in 1 .. Len(infos) : "duration" \notin DOMAIN infos[j]
    /\ pc = "returned" => (Len(infos) = num_times /\ infos = finished)

C3_Witness ==
    /\ pc = "returned"
    /\ num_times = 2
    /\ Len(infos) = 2
    /\ infos[1] # infos[2]

\* A descriptor that cannot be constructed: it does not split into a kind and a
\* spec, its kind is unknown, or its spec lacks the sub-fields of its kind
Unresolvable(descriptor) ==
    LET parts == Split(descriptor, <<":", ":">>) IN
    \/ Len(parts) # 2
    \/ ~\E k \in RecognizedKinds : parts[1] = <<k>>
    \/ \E k \in RecognizedKinds : parts[1] = <<k>> /\ ~ValidFor(k, parts[2])

\* C5: an agent descriptor that cannot be constructed ends run with its error
\* before any episode: no simulation is made or reset, nothing is polled,
\* stepped, sent or recorded.
C5_FailFast ==
    ((\E k \in DOMAIN Split(args.agents, <<",">>) :
            Unresolvable(Split(args.agents, <<",">>)[k]))
     /\ pc # "agents") =>
        /\ pc = "raised"
        /\ exc \in {"ValueError", "AssertionError"}
        /\ agents = Unbound /\ env = None
        /\ ops = 0 /\ log = <<>> /\ i = 0 /\ infos = <<>>
        /\ fs = [dirs |-> {}, rendered |-> 0, frames |-> <<>>, merged |-> <<>>]

C5_Witness ==
    /\ pc = "raised"
    /\ exc = "AssertionError"
    /\ Split(args.agents, <<",">>)[1] = <<"bogus", ":", ":", "x">>
    /\ log = <<>>

\* C6: every step of the simulation comes right after the poll of all the
\* agents for the same observation, which comes right after the blocking
\* notification of that observation.
C6_TickOrder ==
    \A j \in 1 .. Len(log) :
        /\ log[j].op = "step" =>
              /\ j >= 3
              /\ log[j - 1].op = "act"
              /\ log[j - 1].tick = log[j].tick
              /\ log[j - 1].n = Len(agents)
              /\ log[j].n = Len(agents)
        /\ log[j].op = "act" =>
              /\ j >= 2
              /\ log[j - 1].op = "notify_obs"
              /\ log[j - 1].waiting
              /\ log[j - 1].tick = log[j].tick

C6_Witness ==
    \E j \in 1 .. Len(log) :
        /\ log[j].op = "step"
        /\ log[j].tick = 1
        /\ log[j - 2].op = "notify_obs"

\* The simulation and the generators after n of reset/act/step, as they follow
\* from the seed alone
RECURSIVE ReplayFrom(_, _, _)
ReplayFrom(w, phase, n) ==
    IF n = 0 THEN w
    ELSE CASE phase = "reset" ->
                LET r == EnvReset(w.env, w.rng, 0) IN
                ReplayFrom([w EXCEPT !.env = r.env, !.rng = r.rng, !.obs = r.obs,
                                     !.done = FALSE], "act", n - 1)
           [] phase = "act" ->
                LET r == EnvAct(agents, w.obs, w.env, w.rng, 0,
                                [k \in 1 .. Len(agents) |-> 0]) IN
                ReplayFrom([w EXCEPT !.env = r.env, !.rng = r.rng,
                                     !.actions = r.actions], "step", n - 1)
           [] phase = "step" ->
                LET r == EnvStep(w.env, w.actions) IN
                ReplayFrom([w EXCEPT !.env = r.env, !.obs = r.obs, !.done = r.done],
                           IF r.done THEN "reset" ELSE "act", n - 1)

Replay(n) ==
    ReplayFrom([env |-> [Make(args.config, Len(agents)) EXCEPT !.prng = Seeded(seed.n)],
                rng |-> [np |-> Seeded(seed.n), py |-> Seeded(seed.n)],
                obs |-> Unbound, done |-> FALSE, actions |-> Unbound],
               "reset", n)

Boards(o) == [k \in DOMAIN o |-> <<o[k].step_count, o[k].board>>]

\* C7: the three generators hold the one seed before the first reset, and with
\* agents that act on the observation and the generators alone, the actions,
\* the observations and the state of the simulation are those that follow from
\* the seed: two runs of one configuration and one seed agree.
C7_SeedDecides ==
    (pc \notin {"agents", "make", "seed"} /\ agents # Unbound) =>
        /\ seed # None
        /\ ops = 0 =>
              /\ rng = [np |-> Seeded(seed.n), py |-> Seeded(seed.n)]
              /\ env.prng = Seeded(seed.n)
        /\ (\A k \in 1 .. Len(agents) : Deterministic(agents[k])) =>
              LET w == Replay(ops) IN
              /\ env.board = w.env.board
              /\ env.step_count = w.env.step_count
              /\ env.prng = w.env.prng
              /\ rng = w.rng
              /\ actions = w.actions
              /\ Boards(obs) = Boards(w.obs)
              /\ done = w.done

C7_Witness ==
    /\ pc = "returned"
    /\ num_times = 2
    /\ \A k \in 1 .. Len(agents) : Deterministic(agents[k])
    /\ ops >= 6
    /\ seed = PyInt(1)

\* C10: an episode returns with the simulation's partial observability as
\* configured, and so every episode computes its first observations under the
\* configured mode.
C10_ObservabilityRestored ==
    /\ pc = "return" =>
          env.is_partially_observable = args.config.is_partially_observable
    /\ pc = "envinfo" =>
          \A k \in DOMAIN obs : obs[k].partial = args.config.is_partially_observable

--------------------------------------------------------------------------
(* Further properties of run, under Spec *)

\* C11: once the agents and the simulation exist, env.close is registered to
\* run at exit however run ends, also when an episode leaves it with an error.
C11_CleanupRegistered ==
    (env # None /\ pc \in {"raised", "returned"}) =>
        \E j \in 1 .. Len(atexit) : atexit[j] = "env.close"

\* C12: a step post that times out in the middle of an episode does not end
\* the episode: no error leaves _run because of it.
C12_StepTimeoutTolerated ==
    \A j \in 1 .. Len(log) :
        (log[j].op = "post" /\ log[j].path = "step" /\ log[j].outcome = "Timeout")
            => exc = "None"

--------------------------------------------------------------------------
(* Further properties of make_agent_from_string, under SpecResolve *)

\* C13: a descriptor of kind test resolves through the fixed table of test
\* strategies only: the call gives a handle exactly when the spec names a
\* strategy of the table, and for every other spec it fails and gives nothing
\* (no value that evaluating the spec as code would give).
C13_TestRegistryOnly ==
    (Called /\ CallIs("test")) =>
        IF \E t \in TestStrategies : t[1] = CallControl
        THEN ret.raised = "None"
             /\ ret.value.type = VariantOf("test", CallControl)
        ELSE ret.raised # "None" /\ ret.value = None

--------------------------------------------------------------------------
(* Further properties of run, under Spec *)

\* The final_info posts of the episode
FinalInfoPosts == SelectSeq(Posts, LAMBDA e : e.path = "final_info")

\* C14: the result is stringified in a copy of the info: the final_info payload
\* carries the result as a string, while the info of the last step, the info
\* given to join_json_state and the info returned and collected keep the result
\* object the simulation gave, equal to the info of the step that ended the
\* episode.
C14_InfoNotMutated ==
    /\ \A j \in 1 .. Len(FinalInfoPosts) :
           /\ FinalInfoPosts[j].payload.of.result.type = "str"
           /\ info = finished[Len(finished)]
           /\ info.result.type = "Result"
           /\ FinalInfoPosts[j].payload.of.result = StrOf(info.result)
    /\ \A j \in 1 .. Len(fs.merged) : fs.merged[j].info.result.type = "Result"
    /\ \A j \in 1 .. Len(infos) :
           infos[j].result.type = "Result" /\ infos[j] = finished[j]

\* An episode with recording ended: its info was sent, merged and is returned
C14_Witness ==
    /\ pc = "return" /\ Len(FinalInfoPosts) = 1 /\ Len(infos) = 1
    /\ \E j \in 1 .. Len(fs.merged) :
           fs.merged[j].dir = dirs.json /\ fs.merged[j].info = info

\* C15: an I/O error of the recorder (making the directories, saving a frame,
\* merging the frames) never leaves run: the episode goes on without it.
C15_RecorderErrorContained == pc = "raised" => exc # "OSError"

--------------------------------------------------------------------------
(* Further properties of make_agent_from_string, under SpecResolve *)

\* The error of a descriptor that does not unpack
Malformed == Raised("ValueError")

\* C16 as claimed: the call fails with the malformed-descriptor error and gives
\* no handle whenever the descriptor does not split into exactly a kind and a
\* spec around "::", or the kind is a remote one (docker, docker_hakozaki,
\* multiplayers, http) and its spec is not an image_or_host:port pair.
C16_MalformedAsClaimed ==
    Called =>
        ((~WellFormed
          \/ \E k \in RemoteKinds : CallIs(k) /\ ~IsPair(CallControl))
            => ret = Malformed)

\* C16 as the code has it: the call fails with ValueError and gives no handle
\* whenever the descriptor does not split into exactly two around "::", or the
\* kind is docker, multiplayers or http and its spec is not a pair, or the kind
\* is docker_hakozaki and its spec has a ":" and is not a pair; a
\* docker_hakozaki spec with no ":" is accepted and gives a handle.
C16_MalformedRejected ==
    Called =>
        /\ ~WellFormed => ret = Malformed
        /\ \A k \in {"docker", "multiplayers", "http"} :
               (CallIs(k) /\ ~IsPair(CallControl)) => ret = Malformed
        /\ (CallIs("docker_hakozaki") /\ ~IsPair(CallControl)) =>
               IF Contains(CallControl, <<":">>)
               THEN ret = Malformed
               ELSE ret.raised = "None" /\ ret.value.type = "DockerHakozakiAgent"

\* An http descriptor with no port was rejected
C16_Witness ==
    /\ Called /\ CallIs("http") /\ CallControl = <<"x">>
    /\ ret = Malformed

--------------------------------------------------------------------------
(* Further properties of run, under Spec *)

\* The decimal numeral of each agent id
IdAtoms == <<"0", "1", "2", "3">>

\* The variables --agent_env_vars gives to the agent of an id: the key=value
\* parts of the entry that starts with the id, None where no entry does
EnvVarsFor(agent_id) ==
    LET entries == Split(args.agent_env_vars.s, <<",">>)
        mine == SelectSeq(entries,
                    LAMBDA e : Split(e, <<":">>)[1] = <<IdAtoms[agent_id + 1]>>)
    IN  IF mine = <<>> THEN None
        ELSE LET parts == Tail(Split(mine[1], <<":">>)) IN
             [type |-> "dict", items |-> [j \in 1 .. Len(parts) |-> parts[j][1]]]

\* C17: the variables --agent_env_vars names for an agent are the env_vars of
\* the container-backed handle made for that agent.
C17_EnvVarsReachContainers ==
    env # None =>
        \A k \in 1 .. Len(agents) :
            agents[k].type \in {"DockerAgent", "DockerHakozakiAgent"}
                => agents[k].env_vars = EnvVarsFor(k - 1)

\* Only recording: no rendering, and a directory for the JSON frames
Recording == ~args.render /\ Truthy(args.record_json_dir)

\* The frames saved in a directory and the merges made of it, in order
FramesIn(d) == SelectSeq(fs.frames, LAMBDA f : f.dir = d)
MergesOf(d) == SelectSeq(fs.merged, LAMBDA m : m.dir = d)

\* Where an episode is, from its first statement to its return
EpisodePcs ==
    {"mkdirs", "reset", "envinfo", "notify0", "initial_obs", "while", "render",
     "notify", "act", "step", "post_step", "final_info", "final_obs",
     "final_render", "join", "return"}

\* C18: when only recording, episode i + 1 saves its frames in base/(i+1): one
\* frame before the agents are polled in each tick (the frame of step count t
\* before the poll of tick t) and one more after the loop, K + 1 frames for K
\* ticks; the frames are merged once, and when they are merged the last frame
\* is saved and final_info is sent.  With no JSON directory no frame is saved
\* and nothing is merged.
C18_FramesAndMerge ==
    /\ (pc # "idle" /\ ~Truthy(args.record_json_dir)) =>
           fs.frames = <<>> /\ fs.merged = <<>>
    /\ (pc \in EpisodePcs /\ Recording) =>
           LET F == FramesIn(dirs.json)
               M == MergesOf(dirs.json)
           IN  /\ dirs.json = PyStr(args.record_json_dir.s \o <<"/", Digits[i + 2]>>)
               /\ \A j \in 1 .. Len(F) : F[j].step_count = j - 1
               /\ pc \in {"notify", "act", "step"} => Len(F) = env.step_count + 1
               /\ pc \in {"post_step", "while", "render", "final_info", "final_obs",
                          "final_render"} => Len(F) = env.step_count
               /\ pc \in {"join", "return"} => Len(F) = env.step_count + 1
               /\ Len(M) = IF pc = "return" THEN 1 ELSE 0
               /\ M # <<>> =>
                      /\ done
                      /\ \E j \in 1 .. Len(Posts) : Posts[j].path = "final_info"
                      /\ M[1].frames = Len(fs.frames)
                      /\ fs.frames[Len(fs.frames)] =
                             [dir |-> dirs.json, step_count |-> env.step_count]

\* The second episode has ended after two ticks with its three frames merged
C18_Witness ==
    /\ pc = "return" /\ Recording /\ i = 1
    /\ env.step_count = 2
    /\ Len(FramesIn(dirs.json)) = 3
    /\ Len(MergesOf(dirs.json)) = 1

\* The keyword arguments the simulation was made with
MadeWith == [k \in {"game_type", "env"} |-> args.config[k]]

\* C20: in every episode the envinfo payload is the keyword arguments of the
\* simulation with each value JSON-encoded once, the same in every episode, and
\* sending it leaves the keyword arguments of the simulation as they were made.
C20_EnvinfoRepeatable ==
    /\ \A j \in 1 .. Len(Posts) :
           Posts[j].path = "envinfo" =>
               Posts[j].payload = [k \in DOMAIN MadeWith |-> Dumps(MadeWith[k])]
    /\ env # None => env.kwargs = MadeWith

--------------------------------------------------------------------------
(* Termination of the battle loop, under FairSpec *)

\* Where run can be
RunPcs == EpisodePcs \cup {"agents", "make", "seed", "for", "atexit", "returned", "raised"}

\* The execution of the next statement.  Wherever run has not ended a
\* statement can be executed, and every statement moves pc: the steps of Next
\* are the steps that change pc.
Advance ==
    /\ pc \notin {"returned", "raised", "idle"}
    /\ \E p \in RunPcs \ {pc} : pc' = p

\* run as one thread of control: a statement that can be executed is executed.
\* Every call of an agent, of the simulation and of requests.post is taken to
\* return or raise (requests.post is given a timeout, line 57).
FairSpec == Spec /\ WF_pc(Advance)

\* The step posts of the episode
StepPosts == SelectSeq(Posts, LAMBDA e : e.path = "step")

\* No tick follows the step that reported done: the step post carrying
\* done = true is the last step post, and no agent is polled and the simulation
\* is not stepped after it
NoTickAfterDone ==
    \A j \in 1 .. Len(log) :
        (log[j].op = "post" /\ log[j].path = "step"
         /\ log[j].payload.done = Dumps(PyBool(TRUE))) =>
            \A k \in j + 1 .. Len(log) :
                /\ log[k].op \notin {"act", "step"}
                /\ ~(log[k].op = "post" /\ log[k].path = "step")

\* An episode that returns has been reset, stepped until done and finalized
PassedAllPhases ==
    pc = "return" =>
        /\ done
        /\ \E a, b, c \in 1 .. Len(log) :
               /\ a < b /\ b < c
               /\ log[a].op = "reset"
               /\ log[b].op = "step"
               /\ log[c].op = "post" /\ log[c].path = "final_info"

\* C19: the battle loop terminates: every episode that is started, and out of
\* which no call raises, reaches its return having passed the reset, the ticks
\* and the finalization, and no tick follows the first step that reported done
\* (the step post carrying done = true is the last step post).
C19_Terminates ==
    /\ [](NoTickAfterDone /\ PassedAllPhases)
    /\ (pc = "mkdirs") ~> (pc = "return" \/ exc # "None")

\* An episode of two ticks has reached its return
C19_Witness ==
    /\ pc = "return" /\ exc = "None"
    /\ Len(StepPosts) = 2
    /\ StepPosts[1].payload.done = Dumps(PyBool(FALSE))
    /\ StepPosts[2].payload.done = Dumps(PyBool(TRUE))

====
